---------------------------- MODULE Spec2Model ----------------------------
(***************************************************************************)
(* Model of smart_ai_fitness_upgraded.py: the free-text workout parser,    *)
(* the metrics functions (calories, BMI, goal), the health-suggestion      *)
(* lookup and the session log that the "Add Entry" handler appends to.     *)
(*                                                                         *)
(* Conventions.                                                            *)
(*  - A Python str is a sequence of one-character strings.  The texts that *)
(*    fetch_health_suggestions returns hold a character beyond U+00FF and  *)
(*    are sequences of code points (integers) instead.                     *)
(*  - A Python int that comes from the workout text (a duration: it has no *)
(*    bound) is its decimal numeral, the sequence of its digits without    *)
(*    leading zeros: 45 is <<"4", "5">>, 0 is <<"0">>.  The ints of the    *)
(*    sidebar (weight, height) are integers.                               *)
(*  - A 2-decimal float (the result of round(x, 2)) is the integer number  *)
(*    of hundredths: 24.9 is 2490.  round(x, 2) == y in Python exactly     *)
(*    when the hundredths agree, because both sides are the double nearest *)
(*    to the same 2-decimal value.  In general the double r that           *)
(*    round(x, 2) returns is represented by the integer nearest to         *)
(*    100 * r, as an integer below 2^31 and as a decimal numeral from 2^31 *)
(*    on; the float inf is Infinity.                                       *)
(*  - Python float arithmetic is IEEE-754 binary64 with round-to-nearest-  *)
(*    even; it is modelled exactly (section "binary64").                   *)
(***************************************************************************)
EXTENDS Integers, Sequences, FiniteSets, TLC

Max(a, b) == IF a >= b THEN a ELSE b
Abs(n) == IF n < 0 THEN 0 - n ELSE n

(***************************************************************************)
(* Natural numbers of any size: little-endian sequences of limbs in        *)
(* 0..LimbBase-1 without leading (most significant) zero limbs.  They hold *)
(* the 53-bit significands of Python floats and the exact double-width     *)
(* results of *, / before they are rounded back to 53 bits.                *)
(***************************************************************************)
LimbBits == 13
LimbBase == 2^LimbBits

RECURSIVE NatToNum(_)
NatToNum(n) == IF n = 0 THEN <<>> ELSE <<n % LimbBase>> \o NatToNum(n \div LimbBase)

RECURSIVE NumToNat(_)
NumToNat(a) == IF a = <<>> THEN 0 ELSE Head(a) + LimbBase * NumToNat(Tail(a))

RECURSIVE Trim(_)
Trim(a) == IF a = <<>> THEN <<>>
           ELSE IF a[Len(a)] = 0 THEN Trim(SubSeq(a, 1, Len(a) - 1)) ELSE a

Limb(a, i) == IF i <= Len(a) THEN a[i] ELSE 0

RECURSIVE AddFrom(_, _, _, _)
AddFrom(a, b, i, carry) ==
    IF i > Len(a) /\ i > Len(b)
    THEN (IF carry = 0 THEN <<>> ELSE <<carry>>)
    ELSE LET s == Limb(a, i) + Limb(b, i) + carry
         IN  <<s % LimbBase>> \o AddFrom(a, b, i + 1, s \div LimbBase)

NumAdd(a, b) == AddFrom(a, b, 1, 0)

\* a - b for a >= b
RECURSIVE SubFrom(_, _, _, _)
SubFrom(a, b, i, borrow) ==
    IF i > Len(a) THEN <<>>
    ELSE LET s == Limb(a, i) - Limb(b, i) - borrow
         IN  IF s < 0 THEN <<s + LimbBase>> \o SubFrom(a, b, i + 1, 1)
                      ELSE <<s>> \o SubFrom(a, b, i + 1, 0)

NumSub(a, b) == Trim(SubFrom(a, b, 1, 0))

\* -1, 0, 1 as a < b, a = b, a > b
RECURSIVE CmpFrom(_, _, _)
CmpFrom(a, b, i) ==
    IF i = 0 THEN 0
    ELSE IF a[i] < b[i] THEN 0 - 1
    ELSE IF a[i] > b[i] THEN 1
    ELSE CmpFrom(a, b, i - 1)

NumCmp(a, b) ==
    IF Len(a) < Len(b) THEN 0 - 1
    ELSE IF Len(a) > Len(b) THEN 1
    ELSE CmpFrom(a, b, Len(a))

\* a * k for a small k (k < 2^17, so that no intermediate exceeds 2^31)
RECURSIVE MulSmallFrom(_, _, _, _)
MulSmallFrom(a, k, i, carry) ==
    IF i > Len(a)
    THEN NatToNum(carry)
    ELSE LET s == a[i] * k + carry
         IN  <<s % LimbBase>> \o MulSmallFrom(a, k, i + 1, s \div LimbBase)

NumMulSmall(a, k) == Trim(MulSmallFrom(a, k, 1, 0))

RECURSIVE NumMul(_, _)
NumMul(a, b) ==
    IF b = <<>> \/ a = <<>> THEN <<>>
    ELSE LET rest == NumMul(a, Tail(b))
         IN  NumAdd(NumMulSmall(a, Head(b)),
                    IF rest = <<>> THEN <<>> ELSE <<0>> \o rest)

\* floor(a / k) for a small k, by schoolbook division from the top limb
RECURSIVE DivSmallFrom(_, _, _, _)
DivSmallFrom(a, k, i, rem) ==
    IF i = 0 THEN <<>>
    ELSE LET cur == rem * LimbBase + a[i]
         IN  DivSmallFrom(a, k, i - 1, cur % k) \o <<cur \div k>>

NumDivSmall(a, k) == Trim(DivSmallFrom(a, k, Len(a), 0))

\* a mod k for a small k
RECURSIVE ModSmallFrom(_, _, _, _)
ModSmallFrom(a, k, i, rem) ==
    IF i = 0 THEN rem ELSE ModSmallFrom(a, k, i - 1, (rem * LimbBase + a[i]) % k)

NumModSmall(a, k) == ModSmallFrom(a, k, Len(a), 0)

RECURSIVE Zeros(_)
Zeros(n) == IF n = 0 THEN <<>> ELSE <<0>> \o Zeros(n - 1)

\* a * 2^k and floor(a / 2^k)
NumShl(a, k) ==
    IF a = <<>> THEN <<>>
    ELSE Zeros(k \div LimbBits) \o NumMulSmall(a, 2^(k % LimbBits))

NumShr(a, k) ==
    IF k \div LimbBits >= Len(a) THEN <<>>
    ELSE NumDivSmall(SubSeq(a, (k \div LimbBits) + 1, Len(a)), 2^(k % LimbBits))

RECURSIVE SmallBitLen(_)
SmallBitLen(n) == IF n = 0 THEN 0 ELSE 1 + SmallBitLen(n \div 2)

NumBitLen(a) ==
    IF a = <<>> THEN 0 ELSE LimbBits * (Len(a) - 1) + SmallBitLen(a[Len(a)])

NumIsOdd(a) == a # <<>> /\ a[1] % 2 = 1

\* floor(a / b) and whether a remainder is left, b # 0, by binary long
\* division: q has qbits bits still to produce, rem < b throughout.
RECURSIVE DivBits(_, _, _, _)
DivBits(rem, b, qbits, q) ==
    IF qbits = 0 THEN [quot |-> q, inexact |-> rem # <<>>]
    ELSE LET r2 == NumMulSmall(rem, 2)
             q2 == NumMulSmall(q, 2)
             ge == Len(q2) >= 0 /\ NumCmp(r2, b) >= 0
         IN  IF ge
             THEN DivBits(NumSub(r2, b), b, qbits - 1, NumAdd(q2, <<1>>))
             ELSE DivBits(r2, b, qbits - 1, q2)

(***************************************************************************)
(* binary64.  A float is [sign, m, e] with value sign * m * 2^e where m is *)
(* a 53-bit significand (2^52 <= m < 2^53), or m = <<>> for zero.  The     *)
(* exponent e is not bounded here: a result of 2^MaxExp or more is one     *)
(* that binary64 cannot hold (FOverflows), and the operation that produced *)
(* it says what becomes of it (int / int raises OverflowError, float *     *)
(* float gives inf).  The nonzero values the program computes are at least *)
(* 1/100 in magnitude, so there are no subnormals or NaNs to model.        *)
(***************************************************************************)
SigBits == 53
MaxExp == 1024

FZero == [sign |-> 1, m |-> <<>>, e |-> 0]

\* round-half-even of (a + s) / 2^k, k >= 1, where s in [0, 1) is nonzero
\* iff sticky
RoundShift(a, k, sticky) ==
    LET q    == NumShr(a, k)
        r    == NumSub(a, NumShl(q, k))
        half == NumShl(<<1>>, k - 1)
        c    == NumCmp(r, half)
        up   == c > 0 \/ (c = 0 /\ (sticky \/ NumIsOdd(q)))
    IN  IF up THEN NumAdd(q, <<1>>) ELSE q

\* the float nearest to sign * (a + s) * 2^e
FRound(sign, a, e, sticky) ==
    IF a = <<>> THEN FZero
    ELSE LET len == NumBitLen(a)
         IN  IF len <= SigBits
             THEN [sign |-> sign, m |-> NumShl(a, SigBits - len), e |-> e - (SigBits - len)]
             ELSE LET k == len - SigBits
                      m == RoundShift(a, k, sticky)
                  IN  IF NumBitLen(m) > SigBits
                      THEN [sign |-> sign, m |-> NumShr(m, 1), e |-> e + k + 1]
                      ELSE [sign |-> sign, m |-> m, e |-> e + k]

\* float(n) for a Python int n, |n| < 2^31: exact
FFromInt(n) == FRound(IF n < 0 THEN 0 - 1 ELSE 1, NatToNum(Abs(n)), 0, FALSE)

\* x, rounded with an unbounded exponent, is 2^MaxExp or more: beyond the
\* largest finite double
FOverflows(x) == x.m # <<>> /\ x.e + SigBits > MaxExp

\* x * y
FMul(x, y) == FRound(x.sign * y.sign, NumMul(x.m, y.m), x.e + y.e, FALSE)

\* x / y, y # 0: 56 quotient bits past the significands' ratio, then rounded
FDiv(x, y) ==
    IF x.m = <<>> THEN FZero
    ELSE LET first == IF NumCmp(x.m, y.m) >= 0
                      THEN [quot |-> <<1>>, rem |-> NumSub(x.m, y.m)]
                      ELSE [quot |-> <<>>, rem |-> x.m]
             d == DivBits(first.rem, y.m, SigBits + 3, first.quot)
         IN  FRound(x.sign * y.sign, d.quot, x.e - y.e - (SigBits + 3), d.inexact)

\* sign * a / q for a natural number a of any size and an int q > 0 (int
\* true division is correctly rounded): floor(a * 2^(SigBits + 3 + bits of
\* q) / q) has more than SigBits + 2 bits.
FDivNum(sign, a, q) ==
    LET k == SigBits + 3 + SmallBitLen(q)
        n == NumShl(a, k)
        quot == NumDivSmall(n, q)
    IN  FRound(sign, quot, 0 - k, NumMulSmall(quot, q) # n)

\* p / q for Python ints p, |p| < 2^31, and q > 0
FDivInt(p, q) == FDivNum(IF p < 0 THEN 0 - 1 ELSE 1, NatToNum(Abs(p)), q)

\* The natural number nearest to 100 * |x|, halves to even
FHundredths(x) ==
    IF x.m = <<>> THEN <<>>
    ELSE LET h == NumMulSmall(x.m, 100)
         IN  IF x.e >= 0 THEN NumShl(h, x.e) ELSE RoundShift(h, 0 - x.e, FALSE)

\* round(x, 2) in hundredths: Python rounds the exact binary value of x to
\* the nearest 2-decimal value, halves to even.  Needs |x| < 2^31 / 100.
FRound2(x) == x.sign * NumToNat(FHundredths(x))

\* round(x, 2) for a finite x >= 0 of any size: the double nearest to the
\* 2-decimal value that x rounds to
FRoundTo2(x) == FDivNum(1, FHundredths(x), 100)

(***************************************************************************)
(* Python str operations on sequences of characters.  The characters are   *)
(* those a string of this module can hold, U+0000 to U+00FF; the tables    *)
(* below are str.lower(), \s / str.isspace() and \d on that range.         *)
(* Characters beyond it (U+212A, which lower-cases to "k", or the digits   *)
(* of other scripts, which \d and int() accept) are outside the model.     *)
(***************************************************************************)
\* The characters str.lower() changes, and what it changes them to
UpperLetters ==
  <<
    "A", "B", "C", "D", "E", "F", "G", "H", "I", "J", "K", "L", "M", "N",
    "O", "P", "Q", "R", "S", "T", "U", "V", "W", "X", "Y", "Z", "À", "Á",
    "Â", "Ã", "Ä", "Å", "Æ", "Ç", "È", "É", "Ê", "Ë", "Ì", "Í", "Î", "Ï",
    "Ð", "Ñ", "Ò", "Ó", "Ô", "Õ", "Ö", "Ø", "Ù", "Ú", "Û", "Ü", "Ý", "Þ"
  >>
LowerLetters ==
  <<
    "a", "b", "c", "d", "e", "f", "g", "h", "i", "j", "k", "l", "m", "n",
    "o", "p", "q", "r", "s", "t", "u", "v", "w", "x", "y", "z", "à", "á",
    "â", "ã", "ä", "å", "æ", "ç", "è", "é", "ê", "ë", "ì", "í", "î", "ï",
    "ð", "ñ", "ò", "ó", "ô", "õ", "ö", "ø", "ù", "ú", "û", "ü", "ý", "þ"
  >>
DigitChars == <<"0", "1", "2", "3", "4", "5", "6", "7", "8", "9">>
\* \s and str.isspace(): space, \t, \n, \r, \f, U+000B, U+001C to U+001F,
\* U+0085 and U+00A0
SpaceChars ==
    {"\t", "\n", "", "\f", "\r", "", "", "", "", " ", "", " "}

IndexOf(seq, c) == CHOOSE i \in 1..Len(seq) : seq[i] = c
InSeq(seq, c) == \E i \in 1..Len(seq) : seq[i] = c

ToLower == [c \in {UpperLetters[i] : i \in 1..Len(UpperLetters)} |->
               LowerLetters[IndexOf(UpperLetters, c)]]
\* The characters whose title case is another single character of the range
ToTitle == [c \in {LowerLetters[i] : i \in 1..Len(LowerLetters)} |->
               UpperLetters[IndexOf(LowerLetters, c)]]
DigitValue == [c \in {DigitChars[i] : i \in 1..Len(DigitChars)} |->
                  IndexOf(DigitChars, c) - 1]

\* c.lower() of one character
LowerChar(c) == IF c \in DOMAIN ToLower THEN ToLower[c] ELSE c

\* s.lower()
Lower(s) == [i \in 1..Len(s) |-> LowerChar(s[i])]

\* The title case of one character, as a string: "ß" becomes "Ss".  The
\* title cases of "µ" and "ÿ" (U+039C and U+0178) lie beyond U+00FF, and
\* for them this has no value.
TitleChar(c) ==
    CASE c = "ß" -> <<"S", "s">>
      [] c \in DOMAIN ToTitle -> <<ToTitle[c]>>
      [] c \notin (DOMAIN ToTitle \cup {"ß", "µ", "ÿ"}) -> <<c>>

\* s.capitalize(): first character title-cased, the rest lower-cased
Capitalize(s) == IF s = <<>> THEN <<>> ELSE TitleChar(Head(s)) \o Lower(Tail(s))

\* s.strip(): leading and trailing whitespace removed
RECURSIVE LStrip(_)
LStrip(s) == IF s # <<>> /\ Head(s) \in SpaceChars THEN LStrip(Tail(s)) ELSE s
RECURSIVE RStrip(_)
RStrip(s) == IF s # <<>> /\ s[Len(s)] \in SpaceChars
             THEN RStrip(SubSeq(s, 1, Len(s) - 1)) ELSE s
Strip(s) == RStrip(LStrip(s))

\* key in s: key occurs as a contiguous substring of s
StartsAt(s, key, i) == i + Len(key) - 1 <= Len(s) /\ SubSeq(s, i, i + Len(key) - 1) = key
Contains(s, key) == \E i \in 1..(Len(s) + 1) : StartsAt(s, key, i)

IsDigit(c) == c \in DOMAIN DigitValue
IsSpace(c) == c \in SpaceChars

\* The number a run of decimal digits denotes (below 2^31, the
\* integers of TLC)
RECURSIVE DigitsToInt(_)
DigitsToInt(ds) ==
    IF ds = <<>> THEN 0
    ELSE 10 * DigitsToInt(SubSeq(ds, 1, Len(ds) - 1)) + DigitValue[ds[Len(ds)]]

\* The decimal numeral of the number that a non-empty run of digits
\* denotes: the run from its first nonzero digit on, "0" for a run of zeros
Numeral(ds) ==
    LET i == CHOOSE k \in 1..Len(ds) :
                 (k = Len(ds) \/ ds[k] # "0") /\ \A x \in 1..(k - 1) : ds[x] = "0"
    IN  SubSeq(ds, i, Len(ds))

\* The decimal numeral of a natural number below 2^31
RECURSIVE NatToNumeral(_)
NatToNumeral(n) ==
    IF n < 10 THEN <<DigitChars[n + 1]>>
    ELSE NatToNumeral(n \div 10) \o <<DigitChars[(n % 10) + 1]>>

\* The number of any size that a decimal numeral denotes, four digits at a
\* time, and back
RECURSIVE NumeralToNum(_)
NumeralToNum(ds) ==
    IF Len(ds) <= 4 THEN NatToNum(DigitsToInt(ds))
    ELSE NumAdd(NumMulSmall(NumeralToNum(SubSeq(ds, 1, Len(ds) - 4)), 10000),
                NatToNum(DigitsToInt(SubSeq(ds, Len(ds) - 3, Len(ds)))))

RECURSIVE NumToNumeral(_)
NumToNumeral(a) ==
    IF Len(a) <= 2 THEN NatToNumeral(NumToNat(a))
    ELSE NumToNumeral(NumDivSmall(a, 10)) \o <<DigitChars[NumModSmall(a, 10) + 1]>>

\* The characters U+0020 to U+005B and U+0061 to U+007E in code order (the
\* texts of the catalog are made of these), and ord(c) on them and "\n"
AsciiLow ==
  <<
    " ", "!", "\"", "#", "$", "%", "&", "'", "(", ")", "*", "+", ",", "-", ".", "/",
    "0", "1", "2", "3", "4", "5", "6", "7", "8", "9", ":", ";", "<", "=", ">", "?",
    "@", "A", "B", "C", "D", "E", "F", "G", "H", "I", "J", "K", "L", "M", "N", "O",
    "P", "Q", "R", "S", "T", "U", "V", "W", "X", "Y", "Z", "["
  >>
AsciiHigh ==
  <<
    "a", "b", "c", "d", "e", "f", "g", "h", "i", "j", "k", "l", "m", "n", "o",
    "p", "q", "r", "s", "t", "u", "v", "w", "x", "y", "z", "{", "|", "}", "~"
  >>
Ord == [c \in {AsciiLow[i] : i \in 1..Len(AsciiLow)}
                \cup {AsciiHigh[i] : i \in 1..Len(AsciiHigh)} \cup {"\n"} |->
           IF c = "\n" THEN 10
           ELSE IF InSeq(AsciiLow, c) THEN 31 + IndexOf(AsciiLow, c)
           ELSE 96 + IndexOf(AsciiHigh, c)]

\* The code points of a str made of these characters
CodePoints(s) == [i \in 1..Len(s) |-> Ord[s[i]]]

\* sys.get_int_max_str_digits(): the longest digit string int() converts
IntMaxStrDigits == 4300

IntLimitMsg(n) ==
    "Exceeds the limit (4300 digits) for integer string conversion: value has "
        \o ToString(n) \o " digits; use sys.set_int_max_str_digits() to increase the limit"

\* int(ds) for a non-empty run of decimal digits: the number (its
\* numeral), or the ValueError for a run longer than the limit (leading
\* zeros count)
ParseInt(ds) ==
    IF Len(ds) > IntMaxStrDigits THEN [ok |-> FALSE, error |-> IntLimitMsg(Len(ds))]
    ELSE [ok |-> TRUE, value |-> Numeral(ds)]

(***************************************************************************)
(* The catalogs.  A Python dict iterates in insertion order, so each is a  *)
(* sequence of entries in the order the source lists them.  MET values are *)
(* in tenths: 6.8 is 68.  The descriptions and tips are strs like the      *)
(* keys, written as sequences of characters.                               *)
(***************************************************************************)
MET_VALUES == <<
    [key |-> <<"w", "a", "l", "k", "i", "n", "g">>, met |-> 35],
    [key |-> <<"r", "u", "n", "n", "i", "n", "g">>, met |-> 75],
    [key |-> <<"c", "y", "c", "l", "i", "n", "g">>, met |-> 68],
    [key |-> <<"s", "w", "i", "m", "m", "i", "n", "g">>, met |-> 58],
    [key |-> <<"y", "o", "g", "a">>, met |-> 25],
    [key |-> <<"w", "e", "i", "g", "h", "t", "s">>, met |-> 40],
    [key |-> <<"d", "a", "n", "c", "i", "n", "g">>, met |-> 50],
    [key |-> <<"a", "e", "r", "o", "b", "i", "c", "s">>, met |-> 60],
    [key |-> <<"h", "i", "k", "i", "n", "g">>, met |-> 60],
    [key |-> <<"j", "u", "m", "p", "i", "n", "g", " ", "r", "o", "p", "e">>, met |-> 100],
    [key |-> <<"r", "o", "w", "i", "n", "g">>, met |-> 70],
    [key |-> <<"r", "i", "d", "i", "n", "g">>, met |-> 45],
    [key |-> <<"s", "k", "a", "t", "i", "n", "g">>, met |-> 70],
    [key |-> <<"f", "o", "o", "t", "b", "a", "l", "l">>, met |-> 80],
    [key |-> <<"b", "a", "s", "k", "e", "t", "b", "a", "l", "l">>, met |-> 65]
>>

HEALTH_KNOWLEDGE_BASE == <<
    [key |-> <<"d", "i", "a", "b", "e", "t", "e", "s">>,
     description |->
        <<"A", " ", "c", "h", "r", "o", "n", "i", "c", " ", "c", "o", "n", "d", "i", "t", "i", "o",
          "n", " ", "t", "h", "a", "t", " ", "a", "f", "f", "e", "c", "t", "s", " ", "h", "o", "w",
          " ", "y", "o", "u", "r", " ", "b", "o", "d", "y", " ", "t", "u", "r", "n", "s", " ", "f",
          "o", "o", "d", " ", "i", "n", "t", "o", " ", "e", "n", "e", "r", "g", "y", ".">>,
     tips |-> <<
        <<"F", "o", "l", "l", "o", "w", " ", "a", " ", "l", "o", "w", "-", "c", "a", "r", "b", ",",
          " ", "h", "i", "g", "h", "-", "f", "i", "b", "e", "r", " ", "d", "i", "e", "t", ".">>,
        <<"E", "x", "e", "r", "c", "i", "s", "e", " ", "r", "e", "g", "u", "l", "a", "r", "l", "y",
          " ", "(", "e", ".", "g", ".", ",", " ", "w", "a", "l", "k", "i", "n", "g", ",", " ", "c",
          "y", "c", "l", "i", "n", "g", ")", ".">>,
        <<"M", "o", "n", "i", "t", "o", "r", " ", "b", "l", "o", "o", "d", " ", "s", "u", "g", "a",
          "r", " ", "d", "a", "i", "l", "y", ".">>,
        <<"A", "v", "o", "i", "d", " ", "s", "u", "g", "a", "r", "y", " ", "s", "n", "a", "c", "k",
          "s", " ", "a", "n", "d", " ", "b", "e", "v", "e", "r", "a", "g", "e", "s", ".">>>>],
    [key |-> <<"h", "i", "g", "h", " ", "b", "l", "o", "o", "d", " ", "p", "r", "e", "s", "s", "u", "r", "e">>,
     description |->
        <<"A", "l", "s", "o", " ", "c", "a", "l", "l", "e", "d", " ", "h", "y", "p", "e", "r", "t",
          "e", "n", "s", "i", "o", "n", ";", " ", "c", "a", "n", " ", "l", "e", "a", "d", " ", "t",
          "o", " ", "h", "e", "a", "r", "t", " ", "i", "s", "s", "u", "e", "s", " ", "i", "f", " ",
          "u", "n", "t", "r", "e", "a", "t", "e", "d", ".">>,
     tips |-> <<
        <<"R", "e", "d", "u", "c", "e", " ", "s", "a", "l", "t", " ", "i", "n", "t", "a", "k", "e",
          ".">>,
        <<"E", "x", "e", "r", "c", "i", "s", "e", " ", "d", "a", "i", "l", "y", " ", "f", "o", "r",
          " ", "3", "0", " ", "m", "i", "n", "u", "t", "e", "s", ".">>,
        <<"A", "v", "o", "i", "d", " ", "s", "m", "o", "k", "i", "n", "g", " ", "a", "n", "d", " ",
          "a", "l", "c", "o", "h", "o", "l", ".">>,
        <<"E", "a", "t", " ", "p", "o", "t", "a", "s", "s", "i", "u", "m", "-", "r", "i", "c", "h",
          " ", "f", "o", "o", "d", "s", " ", "l", "i", "k", "e", " ", "b", "a", "n", "a", "n", "a",
          "s", ".">>>>],
    [key |-> <<"o", "b", "e", "s", "i", "t", "y">>,
     description |->
        <<"A", " ", "m", "e", "d", "i", "c", "a", "l", " ", "c", "o", "n", "d", "i", "t", "i", "o",
          "n", " ", "i", "n", "v", "o", "l", "v", "i", "n", "g", " ", "e", "x", "c", "e", "s", "s",
          " ", "b", "o", "d", "y", " ", "f", "a", "t", ".">>,
     tips |-> <<
        <<"E", "a", "t", " ", "i", "n", " ", "a", " ", "c", "a", "l", "o", "r", "i", "e", " ", "d",
          "e", "f", "i", "c", "i", "t", ".">>,
        <<"A", "v", "o", "i", "d", " ", "p", "r", "o", "c", "e", "s", "s", "e", "d", " ", "f", "o",
          "o", "d", " ", "a", "n", "d", " ", "s", "u", "g", "a", "r", "s", ".">>,
        <<"D", "r", "i", "n", "k", " ", "w", "a", "t", "e", "r", " ", "b", "e", "f", "o", "r", "e",
          " ", "m", "e", "a", "l", "s", ".">>,
        <<"W", "a", "l", "k", " ", "a", "t", " ", "l", "e", "a", "s", "t", " ", "1", "0", ",", "0",
          "0", "0", " ", "s", "t", "e", "p", "s", " ", "d", "a", "i", "l", "y", ".">>>>],
    [key |-> <<"h", "e", "a", "d", "a", "c", "h", "e">>,
     description |->
        <<"P", "a", "i", "n", " ", "i", "n", " ", "t", "h", "e", " ", "h", "e", "a", "d", " ", "r",
          "e", "g", "i", "o", "n", ",", " ", "o", "f", "t", "e", "n", " ", "d", "u", "e", " ", "t",
          "o", " ", "s", "t", "r", "e", "s", "s", ",", " ", "d", "e", "h", "y", "d", "r", "a", "t",
          "i", "o", "n", ",", " ", "o", "r", " ", "s", "l", "e", "e", "p", " ", "i", "s", "s", "u",
          "e", "s", ".">>,
     tips |-> <<
        <<"D", "r", "i", "n", "k", " ", "p", "l", "e", "n", "t", "y", " ", "o", "f", " ", "w", "a",
          "t", "e", "r", ".">>,
        <<"P", "r", "a", "c", "t", "i", "c", "e", " ", "s", "t", "r", "e", "s", "s", "-", "r", "e",
          "l", "i", "e", "v", "i", "n", "g", " ", "a", "c", "t", "i", "v", "i", "t", "i", "e", "s",
          " ", "l", "i", "k", "e", " ", "m", "e", "d", "i", "t", "a", "t", "i", "o", "n", ".">>,
        <<"A", "v", "o", "i", "d", " ", "e", "x", "c", "e", "s", "s", "i", "v", "e", " ", "s", "c",
          "r", "e", "e", "n", " ", "t", "i", "m", "e", ".">>,
        <<"G", "e", "t", " ", "7", "-", "8", " ", "h", "o", "u", "r", "s", " ", "o", "f", " ", "s",
          "l", "e", "e", "p", ".">>>>],
    [key |-> <<"f", "a", "t", "i", "g", "u", "e">>,
     description |->
        <<"F", "e", "e", "l", "i", "n", "g", " ", "o", "v", "e", "r", "t", "i", "r", "e", "d", ",",
          " ", "w", "i", "t", "h", " ", "l", "o", "w", " ", "e", "n", "e", "r", "g", "y", " ", "a",
          "n", "d", " ", "m", "o", "t", "i", "v", "a", "t", "i", "o", "n", ".">>,
     tips |-> <<
        <<"E", "n", "s", "u", "r", "e", " ", "c", "o", "n", "s", "i", "s", "t", "e", "n", "t", " ",
          "s", "l", "e", "e", "p", " ", "s", "c", "h", "e", "d", "u", "l", "e", " ", "(", "7", "-",
          "8", " ", "h", "r", "s", ")", ".">>,
        <<"S", "t", "a", "y", " ", "h", "y", "d", "r", "a", "t", "e", "d", ".">>,
        <<"L", "i", "m", "i", "t", " ", "c", "a", "f", "f", "e", "i", "n", "e", " ", "l", "a", "t",
          "e", " ", "i", "n", " ", "t", "h", "e", " ", "d", "a", "y", ".">>,
        <<"T", "a", "k", "e", " ", "s", "h", "o", "r", "t", " ", "w", "a", "l", "k", "s", " ", "t",
          "o", " ", "r", "e", "f", "r", "e", "s", "h", " ", "e", "n", "e", "r", "g", "y", ".">>>>]
>>

(***************************************************************************)
(* parse_input                                                             *)
(***************************************************************************)
MinToken == <<"m", "i", "n">>

MissingDurationMsg == "Please include duration like '30 minutes' in your input."
UnknownActivityMsg ==
    "Couldn't detect a known activity. Try including words like running, cycling, dancing, etc."

AllDigits(s, i, j) == \A k \in i..j : IsDigit(s[k])
AllSpaces(s, i, j) == \A k \in i..j : IsSpace(s[k])

\* The end of the longest run of digits, and of whitespace, that starts at
\* i (i - 1 when s[i] is none, or is beyond the end of s)
DigitRunEnd(s, i) ==
    (CHOOSE k \in i..(Len(s) + 1) :
        (k > Len(s) \/ ~IsDigit(s[k])) /\ AllDigits(s, i, k - 1)) - 1
SpaceRunEnd(s, i) ==
    (CHOOSE k \in i..(Len(s) + 1) :
        (k > Len(s) \/ ~IsSpace(s[k])) /\ AllSpaces(s, i, k - 1)) - 1

\* The pattern with \s+ in place of \s*
DurationMatchEndsStrict(s, i) ==
    {j \in i..DigitRunEnd(s, i) :
        \E k \in (j + 1)..SpaceRunEnd(s, j + 1) : StartsAt(s, MinToken, k + 1)}

\* The ends j of group 1 in the matches of (\d+)\s*(min|minutes?) that start
\* at i: s[i..j] are digits, s[j+1..k] whitespace (possibly none) and the
\* token "min" starts at k+1.  The alternative "minutes?" only ever extends
\* a match that "min" already makes.
DurationMatchEnds(s, i) ==
    {j \in i..DigitRunEnd(s, i) :
        \E k \in j..SpaceRunEnd(s, j + 1) : StartsAt(s, MinToken, k + 1)}

\* re.search: the leftmost start that matches; \d+ is greedy, so group 1 is
\* the longest digit run from there that lets the rest match.  <<>> when
\* there is no match (group 1 is never empty in a match).
DurationSearch(s) ==
    LET starts == {i \in 1..Len(s) : DurationMatchEnds(s, i) # {}}
    IN  IF starts = {} THEN <<>>
        ELSE LET i == CHOOSE x \in starts : \A y \in starts : x <= y
                 ends == DurationMatchEnds(s, i)
                 j == CHOOSE x \in ends : \A y \in ends : x >= y
             IN  SubSeq(s, i, j)

\* Position of the first occurrence of key in s, Len(s) + 1 when there is none
FirstPos(s, key) ==
    IF Contains(s, key) THEN CHOOSE i \in 1..Len(s) :
                                 StartsAt(s, key, i) /\ \A k \in 1..(i - 1) : ~StartsAt(s, key, k)
    ELSE Len(s) + 1

\* The activity that occurs first in the text instead of first in the catalog
FirstActivityByPosition(s) ==
    LET hits == {n \in 1..Len(MET_VALUES) : Contains(s, MET_VALUES[n].key)}
    IN  IF hits = {} THEN 0
        ELSE CHOOSE n \in hits : \A m \in hits :
                 \/ FirstPos(s, MET_VALUES[n].key) < FirstPos(s, MET_VALUES[m].key)
                 \/ (FirstPos(s, MET_VALUES[n].key) = FirstPos(s, MET_VALUES[m].key) /\ n <= m)

\* next((a for a in MET_VALUES if a in text.lower()), None): index of the
\* first catalog entry whose key occurs in s, 0 for None
FirstActivity(s) ==
    LET hits == {n \in 1..Len(MET_VALUES) : Contains(s, MET_VALUES[n].key)}
    IN  IF hits = {} THEN 0 ELSE CHOOSE n \in hits : \A m \in hits : n <= m

\* parse_input: [ok |-> TRUE, activity, duration] with the duration as a
\* numeral, or the message of the ValueError raised: no duration match
\* (line 71), int() refusing the digits (line 73), no activity (line 76) --
\* in that order
parse_input(text) ==
    LET low      == Lower(text)
        digits   == DurationSearch(low)
        duration == ParseInt(digits)
        n        == FirstActivity(low)
    IN  IF digits = <<>> THEN [ok |-> FALSE, error |-> MissingDurationMsg]
        ELSE IF ~duration.ok THEN [ok |-> FALSE, error |-> duration.error]
        ELSE IF n = 0 THEN [ok |-> FALSE, error |-> UnknownActivityMsg]
        ELSE [ok |-> TRUE, activity |-> MET_VALUES[n].key, duration |-> duration.value]

(***************************************************************************)
(* estimate_calories, calculate_bmi, determine_goal                        *)
(***************************************************************************)
DefaultMet == 35

ActivityKeys == {MET_VALUES[n].key : n \in 1..Len(MET_VALUES)}

\* MET_VALUES.get(activity, 3.5), in tenths
MetLookup(activity) ==
    IF activity \in ActivityKeys
    THEN MET_VALUES[CHOOSE n \in 1..Len(MET_VALUES) : MET_VALUES[n].key = activity].met
    ELSE DefaultMet

\* The float a decimal literal with one decimal denotes: 6.8 is the double
\* nearest to 68/10.
FFromTenths(t) == FDivInt(t, 10)

OverflowMsg == "integer division result too large for a float"

\* float('inf'), which round(x, 2) returns unchanged
Infinity == "inf"

\* A duration of more than MaxQuotientDigits digits is at least
\* 10^MaxQuotientDigits, which is more than 60 * 2^MaxExp
MaxQuotientDigits == 311

\* The double r, finite and not negative, as the integer nearest to 100 * r
Hundredths(r) ==
    LET h == FHundredths(r)
    IN  IF NumBitLen(h) <= 31 THEN NumToNat(h) ELSE NumToNumeral(h)

\* met10 * weight * duration is below 2^31, for a duration numeral
SmallProduct(met10, weight_kg, duration) ==
    Len(duration) <= 9 /\ DigitsToInt(duration) <= 2147483647 \div (met10 * weight_kg)

\* duration // 60 in place of duration / 60: whole hours only
estimate_calories_whole_hours(activity, duration, weight) ==
    IF Len(duration) > 9 THEN [ok |-> FALSE, error |-> OverflowMsg]
    ELSE [ok |-> TRUE,
          value |-> MetLookup(activity) * weight * (DigitsToInt(duration) \div 60) * 10]

\* round(met * weight * (duration / 60), 2) for ints weight > 0 and
\* duration >= 0 (a numeral): [ok |-> TRUE, value] with the value in
\* hundredths or Infinity, or the message of the OverflowError that
\* duration / 60 raises when the quotient is beyond the largest double.
\* With n = met10 * weight * duration the exact value is n/6 hundredths.
\* For n < 2^31 the float result is within 2^-50 of it (relative), which is
\* far less than the 1/6 hundredth that separates n/6 from a half-way
\* point, so round() lands on the exact value's nearest hundredth unless
\* n/6 is itself half way between two hundredths; only then does the
\* outcome depend on the rounding errors of the float operations.  In that
\* case and for every larger n the float operations are carried out: the
\* quotient duration / 60 (OverflowError when it overflows), the two
\* products (inf when the second overflows) and round(x, 2).
estimate_calories(activity, duration, weight) ==
    LET met   == MetLookup(activity)
        n     == met * weight * DigitsToInt(duration)
        small == SmallProduct(met, weight, duration)
        hours == FDivNum(1, NumeralToNum(duration), 60)
        x     == FMul(FMul(FFromTenths(met), FFromInt(weight)), hours)
    IN  CASE small /\ n % 6 # 3 -> [ok |-> TRUE, value |-> (n + 3) \div 6]
          [] small /\ n % 6 = 3 -> [ok |-> TRUE, value |-> FRound2(x)]
          [] ~small /\ Len(duration) > MaxQuotientDigits ->
                [ok |-> FALSE, error |-> OverflowMsg]
          [] ~small /\ Len(duration) <= MaxQuotientDigits ->
                IF FOverflows(hours) THEN [ok |-> FALSE, error |-> OverflowMsg]
                ELSE IF FOverflows(x) THEN [ok |-> TRUE, value |-> Infinity]
                ELSE [ok |-> TRUE, value |-> Hundredths(FRoundTo2(x))]

ZeroDivisionMsg == "float division by zero"

\* height_m = height_cm / 100; round(weight / (height_m ** 2), 2), in
\* hundredths, for ints weight > 0 and height_cm.  height_m ** 2 is 0.0 only
\* for height_cm = 0, and the division then raises ZeroDivisionError.  A
\* negative height squares to the same value as its absolute value.  As in
\* estimate_calories the float operations decide the result only when the
\* exact quotient weight * 10^6 / height_cm^2 is half way between hundredths.
calculate_bmi(weight, height_cm) ==
    IF height_cm = 0 THEN [ok |-> FALSE, error |-> ZeroDivisionMsg]
    ELSE LET n  == weight * 1000000
             sq == height_cm * height_cm
         IN  IF 2 * (n % sq) # sq
             THEN [ok |-> TRUE, value |-> (2 * n + sq) \div (2 * sq)]
             ELSE LET height_m == FDivInt(height_cm, 100)
                  IN  [ok |-> TRUE,
                       value |-> FRound2(FDiv(FFromInt(weight), FMul(height_m, height_m)))]

GainBelow == 1850
MaintainUpTo == 2490

\* bmi < 24.9 in place of bmi <= 24.9
determine_goal_open(bmi) ==
    IF bmi < GainBelow THEN "gain"
    ELSE IF bmi < MaintainUpTo THEN "maintain"
    ELSE "lose"

\* bmi in hundredths: bmi < 18.5, then bmi <= 24.9
determine_goal(bmi) ==
    IF bmi < GainBelow THEN "gain"
    ELSE IF bmi <= MaintainUpTo THEN "maintain"
    ELSE "lose"

(***************************************************************************)
(* fetch_health_suggestions                                                *)
(***************************************************************************)
\* U+2019, the right single quotation mark
RightQuote == 8217

\* The fallback text, in code points
NotFoundMsg ==
    CodePoints(<<"S", "o", "r", "r", "y", ",", " ", "w", "e", " ", "c", "o", "u", "l", "d", "n">>)
    \o <<RightQuote>> \o
    CodePoints(<<"t", " ", "f", "i", "n", "d", " ", "s", "u", "g", "g", "e", "s", "t", "i", "o", "n", "s",
          " ", "f", "o", "r", " ", "t", "h", "a", "t", " ", "i", "s", "s", "u", "e", ".", " ", "T",
          "r", "y", " ", "g", "e", "n", "e", "r", "a", "l", " ", "t", "e", "r", "m", "s", " ", "l",
          "i", "k", "e", " ", "'", "d", "i", "a", "b", "e", "t", "e", "s", "'", ",", " ", "'", "h",
          "e", "a", "d", "a", "c", "h", "e", "'", ",", " ", "o", "r", " ", "'", "f", "a", "t", "i",
          "g", "u", "e", "'", ".">>)

\* "\n".join([f"- {tip}" for tip in tips])
RECURSIVE JoinTips(_)
JoinTips(tips) ==
    IF tips = <<>> THEN <<>>
    ELSE IF Len(tips) = 1 THEN <<"-", " ">> \o tips[1]
    ELSE <<"-", " ">> \o tips[1] \o <<"\n">> \o JoinTips(Tail(tips))

\* f"**{description}**\n\n**Tips:**\n" + tips
FormatEntry(entry) ==
    <<"*", "*">> \o entry.description
        \o <<"*", "*", "\n", "\n", "*", "*", "T", "i", "p", "s", ":", "*", "*", "\n">>
        \o JoinTips(entry.tips)

\* The topic that occurs first in the query instead of first in the catalog
FirstTopicByPosition(q) ==
    LET hits == {n \in 1..Len(HEALTH_KNOWLEDGE_BASE) : Contains(q, HEALTH_KNOWLEDGE_BASE[n].key)}
    IN  IF hits = {} THEN 0
        ELSE CHOOSE n \in hits : \A m \in hits :
                 \/ FirstPos(q, HEALTH_KNOWLEDGE_BASE[n].key) < FirstPos(q, HEALTH_KNOWLEDGE_BASE[m].key)
                 \/ (FirstPos(q, HEALTH_KNOWLEDGE_BASE[n].key) = FirstPos(q, HEALTH_KNOWLEDGE_BASE[m].key)
                        /\ n <= m)

\* Index of the first catalog entry whose key occurs in q, 0 when none does
FirstTopic(q) ==
    LET hits == {n \in 1..Len(HEALTH_KNOWLEDGE_BASE) : Contains(q, HEALTH_KNOWLEDGE_BASE[n].key)}
    IN  IF hits = {} THEN 0 ELSE CHOOSE n \in hits : \A m \in hits : n <= m

\* The text for query, in code points
fetch_health_suggestions(query) ==
    LET q == Strip(Lower(query))
        n == FirstTopic(q)
    IN  IF n = 0 THEN NotFoundMsg ELSE CodePoints(FormatEntry(HEALTH_KNOWLEDGE_BASE[n]))

(***************************************************************************)
(* The session: one Streamlit script run per interaction.  weight and      *)
(* height are the sidebar inputs, bmi and goal are recomputed from them by *)
(* every run, df is st.session_state.df, today is the date the clock shows *)
(* and out is what the button handlers of the last run displayed, or the   *)
(* exception that ended the run.  arg and res are used only by the         *)
(* specifications that apply one function to a range of arguments.         *)
(***************************************************************************)
VARIABLES weight, height, bmi, goal, df, today, out, arg, res

vars == <<weight, height, bmi, goal, df, today, out, arg, res>>

MinWeight == 40
MaxWeight == 200
DefaultWeight == 70
MinHeight == 140
MaxHeight == 220
DefaultHeight == 170

\* Bounds of the model: entries logged in a session, fragments in a workout
\* text and in a health query, and the largest BMI (in hundredths) that
\* determine_goal is applied to.
MaxLog == 2
MaxFrags == 4
MaxQueryFrags == 3
MaxBmi == 10300

\* Values typed into the sidebar during a session
WeightInputs == {DefaultWeight, 75}
HeightInputs == {DefaultHeight, 160}

\* datetime.today().strftime('%Y-%m-%d') on the successive days of a session
Days == <<"2026-10-29", "2026-10-30">>

\* Digits of the longest duration typed
LongDuration == 400

\* Texts submitted with the 'Add Entry' button
WorkoutTexts == {
    <<"4", "5", "m", "i", "n", " ", "C", "y", "c", "l", "i", "n", "g", " ", "a", "n", "d", " ",
      "R", "u", "n", "n", "i", "n", "g">>,
    <<"0", " ", "m", "i", "n", " ", "y", "o", "g", "a">>,
    <<"w", "o", "r", "k", "o", "u", "t">>,
    <<"4", "5", " ", "m", "i", "n", " ", "o", "f", " ", "s", "o", "m", "e", "t", "h", "i", "n", "g",
      " ", "u", "n", "k", "n", "o", "w", "n">>,
    [i \in 1..LongDuration |-> "9"] \o <<" ", "m", "i", "n", " ", "y", "o", "g", "a">>,
    <<>>
}

\* Queries submitted with the 'Get Suggestion' button
HealthQueries == {
    <<"I", " ", "h", "a", "v", "e", " ", "f", "a", "t", "i", "g", "u", "e", " ", "a", "n", "d", " ",
      "a", " ", "H", "e", "a", "d", "a", "c", "h", "e">>,
    <<"s", "o", "r", "e", " ", "t", "h", "r", "o", "a", "t">>,
    <<" ", " ">>
}

NoOutput == [kind |-> "none"]
NotRun == [done |-> FALSE]

Init ==
    /\ weight = DefaultWeight
    /\ height = DefaultHeight
    /\ bmi = calculate_bmi(DefaultWeight, DefaultHeight).value
    /\ goal = determine_goal(calculate_bmi(DefaultWeight, DefaultHeight).value)
    /\ df = <<>>
    /\ today \in {Days[i] : i \in 1..Len(Days)}
    /\ out = NoOutput
    /\ arg = <<>>
    /\ res = NotRun

\* The sidebar's weight is changed: the run recomputes bmi and goal.
SetWeight(w) ==
    /\ w # weight
    /\ weight' = w
    /\ bmi' = calculate_bmi(w, height).value
    /\ goal' = determine_goal(calculate_bmi(w, height).value)
    /\ out' = NoOutput
    /\ UNCHANGED <<height, df, today, arg, res>>

\* The sidebar's height is changed.
SetHeight(h) ==
    /\ h # height
    /\ height' = h
    /\ bmi' = calculate_bmi(weight, h).value
    /\ goal' = determine_goal(calculate_bmi(weight, h).value)
    /\ out' = NoOutput
    /\ UNCHANGED <<weight, df, today, arg, res>>

\* parse_input on the texts of the session, tabulated
ParsedWorkouts == [text \in WorkoutTexts |-> parse_input(text)]

\* parse_input(text)
Parsed(text) == IF text \in WorkoutTexts THEN ParsedWorkouts[text] ELSE parse_input(text)

\* The row the 'Add Entry' handler builds
NewEntry(activity, duration, calories) ==
    [Date |-> today, Activity |-> Capitalize(activity), Duration |-> duration,
     Calories |-> calories, Weight |-> weight, Height |-> height, BMI |-> bmi]

\* A handler that logs a row for a text it could not parse
AddEntryLoggingFailures(text) ==
    /\ Len(df) < MaxLog
    /\ IF text = <<>>
       THEN out' = NoOutput /\ UNCHANGED df
       ELSE LET p == Parsed(text)
            IN  IF p.ok
                THEN LET calories == estimate_calories(p.activity, p.duration, weight)
                     IN  IF calories.ok
                         THEN /\ df' = Append(df, NewEntry(p.activity, p.duration, calories.value))
                              /\ out' = [kind |-> "success", activity |-> p.activity,
                                         duration |-> p.duration,
                                         calories |-> calories.value]
                         ELSE /\ out' = [kind |-> "exception", type |-> "OverflowError",
                                         text |-> calories.error]
                              /\ UNCHANGED df
                ELSE /\ out' = [kind |-> "error", text |-> p.error]
                     /\ df' = Append(df, NewEntry(<<>>, <<"0">>, 0))
    /\ UNCHANGED <<weight, height, bmi, goal, today, arg, res>>

\* pd.concat([new_entry, st.session_state.df]): the new row first
AddEntryPrepending(text) ==
    /\ Len(df) < MaxLog
    /\ IF text = <<>>
       THEN out' = NoOutput /\ UNCHANGED df
       ELSE LET p == Parsed(text)
            IN  IF p.ok
                THEN LET calories == estimate_calories(p.activity, p.duration, weight)
                     IN  IF calories.ok
                         THEN /\ df' = <<NewEntry(p.activity, p.duration, calories.value)>> \o df
                              /\ out' = [kind |-> "success", activity |-> p.activity,
                                         duration |-> p.duration,
                                         calories |-> calories.value]
                         ELSE /\ out' = [kind |-> "exception", type |-> "OverflowError",
                                         text |-> calories.error]
                              /\ UNCHANGED df
                ELSE /\ out' = [kind |-> "error", text |-> p.error]
                     /\ UNCHANGED df
    /\ UNCHANGED <<weight, height, bmi, goal, today, arg, res>>

\* 'Add Entry' is pressed with text in the workout box; the row is dated by
\* the clock at the press.  MaxLog caps the log's growth: only the append is
\* guarded by it.  The handler catches ValueError only (line 147): the
\* OverflowError of estimate_calories ends the run before anything is
\* logged, and the page shows the exception.
AddEntry(text) ==
    /\ IF text = <<>>
       THEN out' = NoOutput /\ UNCHANGED df
       ELSE LET p == Parsed(text)
            IN  IF p.ok
                THEN LET calories == estimate_calories(p.activity, p.duration, weight)
                     IN  IF calories.ok
                         THEN /\ Len(df) < MaxLog
                              /\ df' = Append(df, NewEntry(p.activity, p.duration,
                                                           calories.value))
                              /\ out' = [kind |-> "success", activity |-> p.activity,
                                         duration |-> p.duration,
                                         calories |-> calories.value]
                         ELSE /\ out' = [kind |-> "exception", type |-> "OverflowError",
                                         text |-> calories.error]
                              /\ UNCHANGED df
                ELSE /\ out' = [kind |-> "error", text |-> p.error]
                     /\ UNCHANGED df
    /\ UNCHANGED <<weight, height, bmi, goal, today, arg, res>>

\* 'Get Suggestion' is pressed with query in the health box: the text of
\* the suggestion (code points) is shown, or the warning.
GetSuggestion(query) ==
    /\ IF Strip(query) # <<>>
       THEN out' = [kind |-> "markdown", text |-> fetch_health_suggestions(query)]
       ELSE out' = [kind |-> "warning", text |-> "Please type something!"]
    /\ UNCHANGED <<weight, height, bmi, goal, df, today, arg, res>>

\* A run that no button started (a box was edited): nothing is displayed
\* by the handlers.
Rerun ==
    /\ out # NoOutput
    /\ out' = NoOutput
    /\ UNCHANGED <<weight, height, bmi, goal, df, today, arg, res>>

\* The clock passes midnight.
Midnight ==
    /\ \E i \in 1..(Len(Days) - 1) : today = Days[i] /\ today' = Days[i + 1]
    /\ UNCHANGED <<weight, height, bmi, goal, df, out, arg, res>>

Next ==
    \/ \E w \in WeightInputs : SetWeight(w)
    \/ \E h \in HeightInputs : SetHeight(h)
    \/ \E text \in WorkoutTexts : AddEntry(text)
    \/ \E query \in HealthQueries : GetSuggestion(query)
    \/ Rerun
    \/ Midnight

Spec == Init /\ [][Next]_vars

(***************************************************************************)
(* Specifications that apply one function to every argument of a bounded   *)
(* set: arg is the argument, res the result once the function has run.     *)
(***************************************************************************)
SessionIdle ==
    /\ weight = DefaultWeight
    /\ height = DefaultHeight
    /\ bmi = calculate_bmi(DefaultWeight, DefaultHeight).value
    /\ goal = determine_goal(calculate_bmi(DefaultWeight, DefaultHeight).value)
    /\ df = <<>>
    /\ today = Days[1]
    /\ out = NoOutput

SessionVars == <<weight, height, bmi, goal, df, today, out>>

\* All concatenations of at most n fragments
RECURSIVE Concats(_, _)
Concats(frags, n) ==
    IF n = 0 THEN {<<>>}
    ELSE LET shorter == Concats(frags, n - 1)
         IN  shorter \cup {s \o f : s \in shorter, f \in frags}

TextFragments == {
    <<"3", "0", " ", "m", "i", "n">>,
    <<"5", "M", "I", "N">>,
    <<"7">>,
    <<" ">>,
    <<"">>,
    <<"m", "i", "n">>,
    <<"r", "u", "n", "n", "i", "n", "g">>,
    <<"W", "a", "l", "k", "i", "n", "g">>,
    <<"g", "r", "o", "w", "i", "n", "g">>
}

ParseTexts == Concats(TextFragments, MaxFrags)

InitParse == SessionIdle /\ arg \in ParseTexts /\ res = NotRun

ParseStep ==
    /\ res = NotRun
    /\ res' = [done |-> TRUE, value |-> parse_input(arg)]
    /\ UNCHANGED <<arg, SessionVars>>

SpecParse == InitParse /\ [][ParseStep]_vars

QueryFragments == {
    <<"h", "e", "a", "d", "a", "c", "h", "e">>,
    <<"f", "a", "t", "i", "g", "u", "e">>,
    <<"D", "i", "a", "b", "e", "t", "e", "s">>,
    <<"h", "i", "g", "h", " ", "b", "l", "o", "o", "d", " ", "p", "r", "e", "s", "s", "u", "r", "e">>,
    <<"o", "b", "e", "s", "i", "t", "y">>,
    <<" ">>,
    <<"a", "c", "h", "e">>,
    <<"h", "i", "g", "h", " ", "b", "l", "o", "o", "d">>
}

HealthTexts == Concats(QueryFragments, MaxQueryFrags)

InitHealth == SessionIdle /\ arg \in HealthTexts /\ res = NotRun

HealthStep ==
    /\ res = NotRun
    /\ res' = [done |-> TRUE, value |-> fetch_health_suggestions(arg)]
    /\ UNCHANGED <<arg, SessionVars>>

SpecHealth == InitHealth /\ [][HealthStep]_vars

\* calculate_bmi on every weight the sidebar allows and every height from
\* -MaxHeight to MaxHeight
InitBmi ==
    /\ SessionIdle
    /\ arg \in {<<w, h>> : w \in MinWeight..MaxWeight, h \in (0 - MaxHeight)..MaxHeight}
    /\ res = NotRun

BmiStep ==
    /\ res = NotRun
    /\ res' = [done |-> TRUE, value |-> calculate_bmi(arg[1], arg[2])]
    /\ UNCHANGED <<arg, SessionVars>>

SpecBmi == InitBmi /\ [][BmiStep]_vars

\* determine_goal on every 2-decimal BMI up to MaxBmi hundredths
InitGoal == SessionIdle /\ arg \in 0..MaxBmi /\ res = NotRun

GoalStep ==
    /\ res = NotRun
    /\ res' = [done |-> TRUE, value |-> determine_goal(arg)]
    /\ UNCHANGED <<arg, SessionVars>>

SpecGoal == InitGoal /\ [][GoalStep]_vars

(***************************************************************************)
(* Properties.                                                             *)
(***************************************************************************)
IsPrefix(s, t) == Len(s) <= Len(t) /\ SubSeq(t, 1, Len(s)) = s

FailsToParse(text) == text = <<>> \/ ~parse_input(text).ok

FailingTexts == {text \in WorkoutTexts : FailsToParse(text)}

\* C1: an 'Add Entry' whose text is empty or fails to parse (no duration
\* pattern, or no catalog activity) leaves the session log exactly as it
\* was (no step that changes the log is such an 'Add Entry'), and after the
\* failure the session still accepts 'Add Entry'.
C1_FailedAddLeavesLog ==
    /\ [][df' # df => \A text \in FailingTexts : ~AddEntry(text)]_vars
    /\ [](out.kind = "error" => ENABLED (\E text \in WorkoutTexts : AddEntry(text)))

\* A failed add was shown its error message on top of a non-empty log.
C1_Witness == out.kind = "error" /\ out.text = UnknownActivityMsg /\ Len(df) >= 1

\* C2: the session log starts empty and is append-only: every step leaves
\* the old log as a prefix of the new one; the interaction that reports a
\* successful 'Add Entry' adds exactly one record at the end, and no other
\* step (another interaction, or the clock passing midnight) changes the log.
C2_AppendOnly ==
    /\ df = <<>>
    /\ [][/\ IsPrefix(df, df')
          /\ (today' = today /\ out'.kind = "success") => Len(df') = Len(df) + 1
          /\ (today' # today \/ out'.kind # "success") => df' = df]_vars

\* Two different records were logged, one after the other.
C2_Witness == Len(df) >= 2 /\ df[1] # df[2]

\* C3: every record of the session log has a duration above zero (its
\* numeral is not "0").
C3_DurationsPositive == \A i \in 1..Len(df) : df[i].Duration # <<"0">>

\* MET (in tenths) the catalog assigns to key, which is one of its keys
CatalogMet(key) == MET_VALUES[CHOOSE n \in 1..Len(MET_VALUES) : MET_VALUES[n].key = key].met

\* c hundredths is a 2-decimal value nearest to met10/10 * weight * duration/60,
\* which is met10 * weight * duration / 6 hundredths (duration an integer)
IsRounded(c, met10, weight_kg, duration) ==
    /\ 6 * c - met10 * weight_kg * duration <= 3
    /\ met10 * weight_kg * duration - 6 * c <= 3

\* c is round(met * weight * (duration / 60), 2) for a duration numeral:
\* the nearest hundredth where met10 * weight * duration is below 2^31, and
\* what the double-precision operations give beyond
IsCalories(c, met10, weight_kg, duration) ==
    IF SmallProduct(met10, weight_kg, duration)
    THEN IsRounded(c, met10, weight_kg, DigitsToInt(duration))
    ELSE LET hours == FDivNum(1, NumeralToNum(duration), 60)
             x     == FMul(FMul(FDivInt(met10, 10), FFromInt(weight_kg)), hours)
         IN  /\ ~FOverflows(hours)
             /\ c = IF FOverflows(x) THEN Infinity ELSE Hundredths(FRoundTo2(x))

\* C4 as stated: the record's activity field is a key of the catalog, and
\* the calories are met * weight * duration / 60 rounded to 2 decimals for
\* the MET of that key.
C4_CaloriesOfActivityField ==
    \A i \in 1..Len(df) :
        /\ df[i].Activity \in ActivityKeys
        /\ IsCalories(df[i].Calories, CatalogMet(df[i].Activity), df[i].Weight, df[i].Duration)

\* C4 as amended: the record's activity field is a catalog key capitalized;
\* the calories are met * weight * duration / 60 rounded to 2 decimals for
\* the MET of the lower-cased activity field, with the record's own weight
\* and duration.
C4_CaloriesOfLoweredActivity ==
    \A i \in 1..Len(df) :
        /\ Lower(df[i].Activity) \in ActivityKeys
        /\ df[i].Activity = Capitalize(Lower(df[i].Activity))
        /\ IsCalories(df[i].Calories, CatalogMet(Lower(df[i].Activity)),
                      df[i].Weight, df[i].Duration)

\* Records logged at two different weights, one of them 45 minutes of running
\* (MET 7.5) at 75 kg, whose exact value 421.875 is half way between two
\* hundredths.
C4_Witness ==
    /\ Len(df) >= 2
    /\ df[1].Weight # df[2].Weight
    /\ \E i \in 1..Len(df) :
           /\ df[i].Activity = <<"R", "u", "n", "n", "i", "n", "g">>
           /\ df[i].Weight = 75 /\ df[i].Duration = <<"4", "5">>
           /\ df[i].Calories = 42188

\* A match of the duration pattern in s: digits s[i..j], then whitespace
\* (possibly none), then "min"
IsDurationMatch(s, i, j) ==
    /\ 1 <= i /\ i <= j /\ j <= Len(s)
    /\ \A k \in i..j : IsDigit(s[k])
    /\ \E k \in j..Len(s) : (\A x \in (j + 1)..k : IsSpace(s[x])) /\ StartsAt(s, MinToken, k + 1)

\* C5: when parse succeeds the duration is the integer value of the digits
\* of the leftmost match of the duration pattern (all the digits of that
\* match), and the activity is the first catalog key, in the order the
\* catalog lists them, that is a substring of the lower-cased text, wherever
\* in the text the keys occur.
C5_FirstMatchFirstKey ==
    (res.done /\ res.value.ok) =>
        LET s == Lower(arg)
        IN  /\ \E i \in 1..Len(s) : \E j \in i..Len(s) :
                   /\ IsDurationMatch(s, i, j)
                   /\ \A i2 \in 1..(i - 1) : \A j2 \in i2..Len(s) : ~IsDurationMatch(s, i2, j2)
                   /\ \A j2 \in (j + 1)..Len(s) : ~IsDurationMatch(s, i, j2)
                   /\ DigitsToInt(res.value.duration) = DigitsToInt(SubSeq(s, i, j))
                   /\ res.value.duration = NatToNumeral(DigitsToInt(SubSeq(s, i, j)))
            /\ \E n \in 1..Len(MET_VALUES) :
                   /\ res.value.activity = MET_VALUES[n].key
                   /\ Contains(s, MET_VALUES[n].key)
                   /\ \A m \in 1..(n - 1) : ~Contains(s, MET_VALUES[m].key)

\* "30 minrunningWalking5MIN": running comes first in the text and walking
\* first in the catalog; 30 is the leftmost of two durations.
C5_Witness ==
    /\ res.done
    /\ arg = <<"3", "0", " ", "m", "i", "n", "r", "u", "n", "n", "i", "n", "g", "W", "a", "l", "k", "i", "n", "g", "5", "M", "I", "N">>
    /\ res.value = [ok |-> TRUE, activity |-> <<"w", "a", "l", "k", "i", "n", "g">>, duration |-> <<"3", "0">>]

\* One or more digits, then at least one whitespace character, then "min"
HasSpacedDuration(s) ==
    \E i \in 1..Len(s) : \E k \in (i + 1)..Len(s) :
        IsDigit(s[i]) /\ (\A x \in (i + 1)..k : IsSpace(s[x])) /\ StartsAt(s, MinToken, k + 1)

\* One or more digits, then whitespace or nothing, then "min"
HasDuration(s) ==
    \E i \in 1..Len(s) : \E k \in i..Len(s) :
        IsDigit(s[i]) /\ (\A x \in (i + 1)..k : IsSpace(s[x])) /\ StartsAt(s, MinToken, k + 1)

HasActivity(s) == \E n \in 1..Len(MET_VALUES) : Contains(s, MET_VALUES[n].key)

\* The digits of the leftmost match are more than int() converts
TooManyDigits(s) ==
    \E i \in 1..Len(s) : \E j \in i..Len(s) :
        /\ IsDurationMatch(s, i, j)
        /\ \A i2 \in 1..(i - 1) : \A j2 \in i2..Len(s) : ~IsDurationMatch(s, i2, j2)
        /\ j - i + 1 > IntMaxStrDigits

\* the outcomes of parse, for a duration test `found` and a test `refused`
\* of int() refusing the digits
Classifies(found, refused) ==
    /\ MissingDurationMsg # UnknownActivityMsg
    /\ res.value.ok \in BOOLEAN
    /\ (~res.value.ok /\ res.value.error = MissingDurationMsg) <=> ~found
    /\ (~res.value.ok /\ res.value.error = UnknownActivityMsg)
           <=> (found /\ ~refused /\ ~HasActivity(Lower(arg)))
    /\ (~res.value.ok /\ res.value.error \notin {MissingDurationMsg, UnknownActivityMsg})
           <=> (found /\ refused)
    /\ res.value.ok <=> (found /\ ~refused /\ HasActivity(Lower(arg)))

\* C6 as stated: parse fails for a missing duration exactly when the text
\* has no digits followed by whitespace and "min", fails differently for an
\* unknown activity when it has them but no catalog key, and succeeds
\* otherwise.
C6_SpacedDurationClassifies == res.done => Classifies(HasSpacedDuration(Lower(arg)), FALSE)

\* C6 as amended: the same outcomes, where the duration pattern is digits
\* followed by optional whitespace (possibly none) and "min", and where a
\* matched digit run of more than 4300 digits is a failure of its own.
C6_DurationClassifies ==
    res.done => Classifies(HasDuration(Lower(arg)), TooManyDigits(Lower(arg)))

\* "5MINrunning" has no whitespace between the digits and "min" and parses.
C6_Witness ==
    /\ res.done
    /\ arg = <<"5", "M", "I", "N", "r", "u", "n", "n", "i", "n", "g">>
    /\ res.value = [ok |-> TRUE, activity |-> <<"r", "u", "n", "n", "i", "n", "g">>, duration |-> <<"5">>]

\* C7: determine_goal returns exactly one of gain, maintain, lose: gain iff
\* bmi < 18.5, maintain iff 18.5 <= bmi <= 24.9, lose iff bmi > 24.9; 18.4 is
\* gain, 18.5 and 24.9 are maintain, 25.0 is lose.
C7_GoalPartition ==
    /\ res.done =>
        /\ res.value \in {"gain", "maintain", "lose"}
        /\ res.value = "gain" <=> arg < 1850
        /\ res.value = "maintain" <=> (1850 <= arg /\ arg <= 2490)
        /\ res.value = "lose" <=> arg > 2490
    /\ determine_goal(1840) = "gain"
    /\ determine_goal(1850) = "maintain"
    /\ determine_goal(2490) = "maintain"
    /\ determine_goal(2500) = "lose"

\* determine_goal has run on 24.9.
C7_Witness == res.done /\ arg = 2490 /\ res.value = "maintain"

\* C8: calculate_bmi fails for every height_cm <= 0 and returns a value for
\* every height_cm > 0.
C8_FailsOnNonPositiveHeight == res.done => (res.value.ok <=> arg[2] > 0)

\* The text of an entry with four tips, in code points: the description
\* between "**", the heading, then one "- tip" line per tip in the order the
\* catalog lists them
EntryText(entry) ==
    LET line(n) == CodePoints(<<"\n", "-", " ">> \o entry.tips[n])
    IN  CodePoints(<<"*", "*">> \o entry.description \o <<"*", "*">>)
            \o <<10, 10>> \o CodePoints(<<"*", "*", "T", "i", "p", "s", ":", "*", "*">>)
            \o line(1) \o line(2) \o line(3) \o line(4)

\* The not-found message, in code points
NotFoundText ==
    <<83, 111, 114, 114, 121, 44, 32, 119, 101, 32, 99, 111, 117, 108, 100, 110, 8217, 116, 32,
      102, 105, 110, 100, 32, 115, 117, 103, 103, 101, 115, 116, 105, 111, 110, 115, 32, 102, 111,
      114, 32, 116, 104, 97, 116, 32, 105, 115, 115, 117, 101, 46, 32, 84, 114, 121, 32, 103, 101,
      110, 101, 114, 97, 108, 32, 116, 101, 114, 109, 115, 32, 108, 105, 107, 101, 32, 39, 100,
      105, 97, 98, 101, 116, 101, 115, 39, 44, 32, 39, 104, 101, 97, 100, 97, 99, 104, 101, 39, 44,
      32, 111, 114, 32, 39, 102, 97, 116, 105, 103, 117, 101, 39, 46>>

\* C9: health_suggestion returns the entry of the first key, in the order
\* diabetes, high blood pressure, obesity, headache, fatigue, that is a
\* substring of the lower-cased, trimmed query, wherever the keys occur in
\* the query, and the not-found message iff no key is a substring.
C9_FirstTopicInCatalogOrder ==
    /\ [n \in 1..Len(HEALTH_KNOWLEDGE_BASE) |-> HEALTH_KNOWLEDGE_BASE[n].key] =
           <<<<"d", "i", "a", "b", "e", "t", "e", "s">>,
             <<"h", "i", "g", "h", " ", "b", "l", "o", "o", "d", " ", "p", "r", "e", "s", "s", "u", "r", "e">>,
             <<"o", "b", "e", "s", "i", "t", "y">>,
             <<"h", "e", "a", "d", "a", "c", "h", "e">>,
             <<"f", "a", "t", "i", "g", "u", "e">>>>
    /\ res.done =>
        LET q == Strip(Lower(arg))
            hit(n) == Contains(q, HEALTH_KNOWLEDGE_BASE[n].key)
        IN  /\ \A n \in 1..Len(HEALTH_KNOWLEDGE_BASE) :
                   (hit(n) /\ \A m \in 1..(n - 1) : ~hit(m))
                       => res.value = EntryText(HEALTH_KNOWLEDGE_BASE[n])
            /\ res.value = NotFoundText <=> \A n \in 1..Len(HEALTH_KNOWLEDGE_BASE) : ~hit(n)

\* "fatigue headache": fatigue comes first in the query, headache in the
\* catalog, and the headache entry is returned (the code points of
\* "**Pain in the head region, ... - Get 7-8 hours of sleep.").
C9_Witness ==
    /\ res.done
    /\ arg = <<"f", "a", "t", "i", "g", "u", "e", " ", "h", "e", "a", "d", "a", "c", "h", "e">>
    /\ res.value =
        <<42, 42, 80, 97, 105, 110, 32, 105, 110, 32, 116, 104, 101, 32, 104, 101, 97, 100, 32,
          114, 101, 103, 105, 111, 110, 44, 32, 111, 102, 116, 101, 110, 32, 100, 117, 101, 32,
          116, 111, 32, 115, 116, 114, 101, 115, 115, 44, 32, 100, 101, 104, 121, 100, 114, 97,
          116, 105, 111, 110, 44, 32, 111, 114, 32, 115, 108, 101, 101, 112, 32, 105, 115, 115,
          117, 101, 115, 46, 42, 42, 10, 10, 42, 42, 84, 105, 112, 115, 58, 42, 42, 10, 45, 32, 68,
          114, 105, 110, 107, 32, 112, 108, 101, 110, 116, 121, 32, 111, 102, 32, 119, 97, 116,
          101, 114, 46, 10, 45, 32, 80, 114, 97, 99, 116, 105, 99, 101, 32, 115, 116, 114, 101,
          115, 115, 45, 114, 101, 108, 105, 101, 118, 105, 110, 103, 32, 97, 99, 116, 105, 118,
          105, 116, 105, 101, 115, 32, 108, 105, 107, 101, 32, 109, 101, 100, 105, 116, 97, 116,
          105, 111, 110, 46, 10, 45, 32, 65, 118, 111, 105, 100, 32, 101, 120, 99, 101, 115, 115,
          105, 118, 101, 32, 115, 99, 114, 101, 101, 110, 32, 116, 105, 109, 101, 46, 10, 45, 32,
          71, 101, 116, 32, 55, 45, 56, 32, 104, 111, 117, 114, 115, 32, 111, 102, 32, 115, 108,
          101, 101, 112, 46>>

\* C10: the activity 'Add Entry' passes to estimate_calories is a key of
\* the catalog, so the MET is the catalog's and not the 3.5 default; and
\* estimate_calories never fails: the call that 'Add Entry' makes returns
\* (the run does not end in its exception), and it returns a value for an
\* activity that is no key (the default MET: 3.5 * 70 * 60/60 = 245).
C10_ActivityIsCatalogKey ==
    /\ out.kind = "success" =>
        /\ out.activity \in ActivityKeys
        /\ MetLookup(out.activity) = CatalogMet(out.activity)
        /\ IsCalories(out.calories, CatalogMet(out.activity), weight, out.duration)
    /\ out.kind # "exception"
    /\ estimate_calories(<<"n", "a", "p">>, <<"6", "0">>, 70) = [ok |-> TRUE, value |-> 24500]
    /\ estimate_calories(<<>>, <<"6", "0">>, 70) = [ok |-> TRUE, value |-> 24500]
=============================================================================
